---- MODULE Spec2Model ----
(***************************************************************************)
(* OTPBot (src/VultBaby/VultBaby_bot.py): the OTP store (users, otp_codes, *)
(* bot_data.json) and the handlers the transport dispatches to.  The       *)
(* Application is built without concurrent updates, and in every handler   *)
(* the reads and writes of the store lie between two awaits (after         *)
(* query.answer(), before the reply), so one handled update is one step.   *)
(***************************************************************************)
EXTENDS Integers, Sequences, FiniteSets, TLC

VARIABLES users, otp_codes, now, file, disk, last, prior, tasks

vars == <<users, otp_codes, now, file, disk, last, prior, tasks>>

None == "None"

\* ---------------------------------------------------------------- bounds
\* The clock is advanced at most MaxTicks times by ClockStep seconds.
MaxTicks == 2
\* A registered user's otp_count is capped (generation is disabled beyond it).
MaxOtpCount == 2

\* ------------------------------------------------------------- constants
\* self.services, __init__
services ==
  [ email_verification |-> [name |-> "Email Verification", expiry |-> 300],
    login_2fa          |-> [name |-> "2FA Login", expiry |-> 180],
    password_reset     |-> [name |-> "Password Reset", expiry |-> 600],
    transaction_verify |-> [name |-> "Transaction Verification", expiry |-> 120],
    account_security   |-> [name |-> "Account Security", expiry |-> 300] ]

\* Telegram user ids seen by the bot.  Every handler indexes self.users and
\* self.otp_codes by the id of the update's own user only, so one user's
\* updates never read or write another user's records.
UserIds == {101}

\* update.effective_user: the profile the transport reports with an update
\* (a user may rename between updates).
Profiles ==
  { [first_name |-> "Ann", last_name |-> None, username |-> "ann"],
    [first_name |-> "Anna", last_name |-> "Lee", username |-> None] }

\* Seconds by which the wall clock is seen to advance between two reads: the
\* shortest expiry, so that an OTP is met before, at and after its expires_at.
ClockStep == services["transaction_verify"].expiry

MaxTime == MaxTicks * ClockStep

Digits == {"0", "1", "2", "3", "4", "5", "6", "7", "8", "9"}
Whitespace == {" "}

CodeA == <<"1", "2", "3", "4", "5", "6">>
CodeB == <<"6", "5", "4", "3", "2", "1">>

\* generate_otp: random.choices(string.digits, k=length), drawn here from a
\* pool of two digit strings.
generate_otp(length) ==
  { c \in {CodeA, CodeB} : Len(c) = length /\ \A i \in 1..Len(c) : c[i] \in Digits }

\* Free text a user may send: the two codes, a code padded with blanks, a
\* 5-digit string and a non-numeric string.
Texts ==
  { CodeA, CodeB,
    <<" ", "1", "2", "3", "4", "5", "6", " ">>,
    <<"1", "2", "3", "4", "5">>,
    <<"a", "b", "c", "d", "e", "f">> }

\* callback_data of the gen_<service_id> buttons a client may send back: two
\* configured services and one that is not configured.
RequestedServices == {"transaction_verify", "login_2fa", "no_such_service"}

\* ------------------------------------------------------------- utilities
Put(d, k, v) == [x \in DOMAIN d \cup {k} |-> IF x = k THEN v ELSE d[x]]
Del(d, k) == [x \in DOMAIN d \ {k} |-> d[x]]

\* str.strip()
RECURSIVE lstrip(_)
lstrip(s) == IF s # <<>> /\ Head(s) \in Whitespace THEN lstrip(Tail(s)) ELSE s
RECURSIVE rstrip(_)
rstrip(s) ==
  IF s # <<>> /\ s[Len(s)] \in Whitespace THEN rstrip(SubSeq(s, 1, Len(s) - 1)) ELSE s
strip(s) == rstrip(lstrip(s))

\* Mutant of isdigit: any non-empty string passes.
isdigit_AnyChar(s) == s # <<>>

\* str.isdigit()
isdigit(s) == s # <<>> /\ \A i \in 1..Len(s) : s[i] \in Digits

\* ------------------------------------------------------------ the store
\* users:     self.users, user id -> User record (absent: never registered)
\* otp_codes: self.otp_codes, user id -> the user's OTP record (absent: none)
\* now:       the wall clock, datetime.now(), in seconds
\* file:      bot_data.json
\* disk:      whether the file system takes every write ("reliable") or may
\*            refuse one ("faulty"); it does not change during a behaviour
\* last:      the update handled last and how its handler ended: the reply
\*            rendered to the user, or the exception raised to the transport
\* prior:     history, per user: the code of the OTP record that left the slot
\*            last, how it left, and whether a code was generated since
\* tasks:     the handler coroutines in flight when updates are processed
\*            concurrently, each suspended at an await; all idle when updates
\*            are processed one after the other, as run() builds the bot

NoEvent ==
  [user |-> 0, op |-> "none", text |-> <<>>, service |-> None,
   result |-> None, reply |-> None]

NoPrior == [code |-> <<>>, how |-> "none", regen |-> FALSE]

\* The coroutines that may be in flight together.
TaskIds == {"t1", "t2"}

\* No coroutine in the slot.
Idle ==
  [pc |-> "idle", user |-> 0, kind |-> "none", data |-> [head |-> "", rest |-> ""],
   text |-> <<>>, result |-> None]

Event(u, op, text, sid, result, reply) ==
  [user |-> u, op |-> op, text |-> text, service |-> sid,
   result |-> result, reply |-> reply]

\* __init__ with no bot_data.json on disk: load_data finds nothing to load.
\* The disk takes every write.
Init ==
  /\ users = [u \in {} |-> None]
  /\ otp_codes = [u \in {} |-> None]
  /\ now = 0
  /\ file = [state |-> "missing", users |-> [k \in {} |-> None]]
  /\ disk = "reliable"
  /\ last = NoEvent
  /\ prior = [u \in UserIds |-> NoPrior]
  /\ tasks = [t \in TaskIds |-> Idle]

\* json.dump of self.users: the int keys are written as strings.
json_dump(us) ==
  [k \in {ToString(u) : u \in DOMAIN us} |->
     us[CHOOSE u \in DOMAIN us : ToString(u) = k]]

\* Mutant of save_data: a failed write is raised to the caller.
save_data_Raises(us) ==
  IF disk = "reliable"
    THEN { [file |-> [state |-> "json", users |-> json_dump(us)], raised |-> FALSE] }
    ELSE { [file |-> [state |-> "json", users |-> json_dump(us)], raised |-> FALSE],
           [file |-> file, raised |-> TRUE],
           [file |-> [state |-> "truncated", users |-> [k \in {} |-> None]],
            raised |-> TRUE] }

\* save_data: the ways one call may end, as the file it leaves and whether it
\* raises.  The file is rewritten; or, on a faulty disk, open() fails and the
\* file stays as it was, or open() truncates the file and json.dump fails.
\* The exception is caught and logged (lines 56-57): the call never raises.
save_data(us) ==
  IF disk = "reliable"
    THEN { [file |-> [state |-> "json", users |-> json_dump(us)], raised |-> FALSE] }
    ELSE { [file |-> [state |-> "json", users |-> json_dump(us)], raised |-> FALSE],
           [file |-> file, raised |-> FALSE],
           [file |-> [state |-> "truncated", users |-> [k \in {} |-> None]],
            raised |-> FALSE] }

\* Mutant of is_otp_valid: a mismatch deletes the record, as an expiry does.
is_otp_valid_DeleteOnMismatch(user_id, otp) ==
  IF user_id \notin DOMAIN otp_codes
    THEN [ret |-> FALSE, line |-> 66, otp_codes |-> otp_codes]
  ELSE IF otp_codes[user_id].code # otp
    THEN [ret |-> FALSE, line |-> 70, otp_codes |-> Del(otp_codes, user_id)]
  ELSE IF now > otp_codes[user_id].expires_at
    THEN [ret |-> FALSE, line |-> 75, otp_codes |-> Del(otp_codes, user_id)]
  ELSE [ret |-> TRUE, line |-> 77, otp_codes |-> otp_codes]

\* is_otp_valid: the value returned, the return statement reached (by its
\* line) and self.otp_codes as the call leaves it.
is_otp_valid(user_id, otp) ==
  IF user_id \notin DOMAIN otp_codes
    THEN [ret |-> FALSE, line |-> 66, otp_codes |-> otp_codes]
  ELSE IF otp_codes[user_id].code # otp
    THEN [ret |-> FALSE, line |-> 70, otp_codes |-> otp_codes]
  ELSE IF now > otp_codes[user_id].expires_at
    THEN [ret |-> FALSE, line |-> 75, otp_codes |-> Del(otp_codes, user_id)]
  ELSE [ret |-> TRUE, line |-> 77, otp_codes |-> otp_codes]

\* The verification result a False return of is_otp_valid stands for.
Rejection(v) == IF v.line = 75 THEN "Expired" ELSE "Invalid"

\* The User record start() creates.
NewUser(profile) ==
  [first_name |-> profile.first_name, last_name |-> profile.last_name,
   username |-> profile.username, registered_at |-> now,
   otp_count |-> 0, verified_count |-> 0]

\* Mutant of start: the User record is written on every /start.
start_Overwrite(u, profile) ==
  /\ users' = Put(users, u, NewUser(profile))
  /\ \E sv \in save_data(users') : file' = sv.file
  /\ last' = Event(u, "start", <<>>, None, "ok", "welcome")
  /\ UNCHANGED <<otp_codes, now, prior>>

\* start: /start and the 'main' button.
start(u, profile) ==
  /\ IF u \notin DOMAIN users
       THEN /\ users' = Put(users, u, NewUser(profile))
            /\ \E sv \in save_data(users') :
                 /\ file' = sv.file
                 /\ last' = IF sv.raised
                              THEN Event(u, "start", <<>>, None, "OSError", None)
                              ELSE Event(u, "start", <<>>, None, "ok", "welcome")
       ELSE /\ last' = Event(u, "start", <<>>, None, "ok", "welcome")
            /\ UNCHANGED <<users, file>>
  /\ UNCHANGED <<otp_codes, now, prior>>

\* show_services_for_generation: /generate and the 'generate' button.
show_services_for_generation(u) ==
  /\ last' = Event(u, "generate_menu", <<>>, None, "ok", "select_service")
  /\ UNCHANGED <<users, otp_codes, now, file, prior>>

\* The OTP record generate_otp_for_service stores: expires_at is computed from
\* the clock read at line 172 (t1), created_at is the clock read at line 179 (t2).
NewOtp(service_id, otp_code, t1, t2) ==
  [code |-> otp_code, service |-> service_id,
   service_name |-> services[service_id].name,
   created_at |-> t2, expires_at |-> t1 + services[service_id].expiry,
   used |-> FALSE]

\* Mutant of StoreOtp: an OTP the user already holds is kept (setdefault).
StoreOtpIfAbsent(u, otp_data) ==
  IF u \in DOMAIN otp_codes THEN otp_codes ELSE Put(otp_codes, u, otp_data)

\* Lines 175-182: self.otp_codes[user_id] = {...}.
StoreOtp(u, otp_data) == Put(otp_codes, u, otp_data)

\* Lines 170-186: the code is stored under the user, then the user's otp_count
\* is incremented and the store saved.
IssueOtp(u, service_id, otp_code, d) ==
  /\ now + d <= MaxTime
  /\ u \in DOMAIN users => users[u].otp_count < MaxOtpCount
  /\ otp_codes' = StoreOtp(u, NewOtp(service_id, otp_code, now, now + d))
  /\ now' = now + d
  /\ prior' = [prior EXCEPT ![u] =
                 IF u \in DOMAIN otp_codes
                   THEN [code |-> otp_codes[u].code, how |-> "replaced", regen |-> TRUE]
                   ELSE [@ EXCEPT !.regen = TRUE]]
  /\ IF u \in DOMAIN users
       THEN /\ users' = [users EXCEPT ![u].otp_count = @ + 1]
            /\ \E sv \in save_data(users') :
                 /\ file' = sv.file
                 /\ last' = IF sv.raised
                              THEN Event(u, "generate", <<>>, service_id, "OSError", None)
                              ELSE Event(u, "generate", <<>>, service_id, "ok", "otp_generated")
       ELSE \* line 185 raises KeyError, after the record was stored
            /\ last' = Event(u, "generate", <<>>, service_id, "KeyError", None)
            /\ UNCHANGED <<users, file>>

\* Mutant of generate_otp_for_service: the user's slot is cleared before the
\* service is looked up.
generate_otp_for_service_ClearFirst(u, service_id, otp_code, d) ==
  IF service_id \notin DOMAIN services
    THEN /\ otp_codes' = Del(otp_codes, u)
         /\ last' = Event(u, "generate", <<>>, service_id, "KeyError", None)
         /\ UNCHANGED <<users, now, file, prior>>
    ELSE IssueOtp(u, service_id, otp_code, d)

\* generate_otp_for_service: the gen_<service_id> buttons.  d is the time that
\* passes between the handler's two reads of the clock.
generate_otp_for_service(u, service_id, otp_code, d) ==
  IF service_id \notin DOMAIN services
    THEN \* line 167 raises KeyError
         /\ last' = Event(u, "generate", <<>>, service_id, "KeyError", None)
         /\ UNCHANGED <<users, otp_codes, now, file, prior>>
    ELSE IssueOtp(u, service_id, otp_code, d)

\* Mutant of ConsumeOtp: the count is incremented and the record removed, but
\* the store is not saved.
ConsumeOtp_NoSave(u, op, text) ==
  IF u \in DOMAIN users
    THEN /\ users' = [users EXCEPT ![u].verified_count = @ + 1]
         /\ otp_codes' = Del(otp_codes, u)
         /\ prior' = [prior EXCEPT ![u] =
                        [code |-> otp_codes[u].code, how |-> "verified", regen |-> FALSE]]
         /\ last' = Event(u, op, text, None, "Success", "verified")
         /\ UNCHANGED file
    ELSE /\ otp_codes' = [otp_codes EXCEPT ![u].used = TRUE]
         /\ last' = Event(u, op, text, None, "KeyError", None)
         /\ UNCHANGED <<users, file, prior>>

\* Lines 470-477 and 276-282: the OTP is marked used, verified_count is
\* incremented, the store is saved and the record removed.  For a user with no
\* User record the increment raises KeyError and the record stays, marked used.
\* A handler has no try of its own: were save_data to raise, the statements
\* after the call would not run.
ConsumeOtp(u, op, text) ==
  IF u \in DOMAIN users
    THEN /\ users' = [users EXCEPT ![u].verified_count = @ + 1]
         /\ \E sv \in save_data(users') :
              /\ file' = sv.file
              /\ IF sv.raised
                   THEN \* the del of line 282/477 is not reached
                        /\ otp_codes' = [otp_codes EXCEPT ![u].used = TRUE]
                        /\ last' = Event(u, op, text, None, "OSError", None)
                        /\ UNCHANGED prior
                   ELSE /\ otp_codes' = Del(otp_codes, u)
                        /\ prior' = [prior EXCEPT ![u] =
                                       [code |-> otp_codes[u].code, how |-> "verified",
                                        regen |-> FALSE]]
                        /\ last' = Event(u, op, text, None, "Success", "verified")
    ELSE /\ otp_codes' = [otp_codes EXCEPT ![u].used = TRUE]
         /\ last' = Event(u, op, text, None, "KeyError", None)
         /\ UNCHANGED <<users, file, prior>>

\* The else branches of lines 275 and 469: is_otp_valid returned False.
RejectOtp(u, op, text, v, reply) ==
  /\ otp_codes' = v.otp_codes
  /\ prior' = IF u \in DOMAIN v.otp_codes
                THEN prior
                ELSE [prior EXCEPT ![u] =
                        [code |-> otp_codes[u].code, how |-> "expired", regen |-> FALSE]]
  /\ last' = Event(u, op, text, None, Rejection(v), reply)
  /\ UNCHANGED <<users, file>>

\* verify_current_otp: the 'verify_current' button.
verify_current_otp(u) ==
  /\ now' = now
  /\ IF u \notin DOMAIN otp_codes
       THEN /\ last' = Event(u, "verify_current", <<>>, None, "NoActiveOtp", "no_otp_to_verify")
            /\ UNCHANGED <<users, otp_codes, file, prior>>
       ELSE LET v == is_otp_valid(u, otp_codes[u].code) IN
            IF v.ret
              THEN ConsumeOtp(u, "verify_current", <<>>)
              ELSE RejectOtp(u, "verify_current", <<>>, v, "expired")

\* handle_text_message: any text that is not a command.
handle_text_message(u, text) ==
  LET message_text == strip(text) IN
  /\ now' = now
  /\ IF isdigit(message_text) /\ Len(message_text) = 6
       THEN IF u \in DOMAIN otp_codes
              THEN LET v == is_otp_valid(u, message_text) IN
                   IF v.ret
                     THEN ConsumeOtp(u, "text", text)
                     ELSE RejectOtp(u, "text", text, v, "invalid_or_expired")
              ELSE /\ last' = Event(u, "text", text, None, "NoActiveOtp", "no_active_otp")
                   /\ UNCHANGED <<users, otp_codes, file, prior>>
       ELSE /\ last' = Event(u, "text", text, None, "NotUnderstood", "not_understood")
            /\ UNCHANGED <<users, otp_codes, file, prior>>

\* Mutant of verify_otp_command: the menu removes a record it finds expired.
verify_otp_command_Sweep(u) ==
  /\ last' = Event(u, "verify_menu", <<>>, None, "ok",
                   IF u \in DOMAIN otp_codes /\ otp_codes[u].expires_at - now > 0
                     THEN "current_otp" ELSE "no_active_otp")
  /\ otp_codes' = IF u \in DOMAIN otp_codes /\ otp_codes[u].expires_at - now <= 0
                    THEN Del(otp_codes, u) ELSE otp_codes
  /\ UNCHANGED <<users, now, file, prior>>

\* verify_otp_command: /verify and the 'verify' button.  The reply shows the
\* current code when time_left > 0 and "No active OTP" otherwise.
verify_otp_command(u) ==
  /\ last' = Event(u, "verify_menu", <<>>, None, "ok",
                   IF u \in DOMAIN otp_codes /\ otp_codes[u].expires_at - now > 0
                     THEN "current_otp" ELSE "no_active_otp")
  /\ UNCHANGED <<users, otp_codes, now, file, prior>>

\* show_stats: /stats and the 'stats' button.  Line 317 raises KeyError for a
\* user with no User record.
show_stats(u) ==
  /\ last' = IF u \in DOMAIN users
               THEN Event(u, "stats", <<>>, None, "ok", "stats")
               ELSE Event(u, "stats", <<>>, None, "KeyError", None)
  /\ UNCHANGED <<users, otp_codes, now, file, prior>>

\* show_services: /services and the 'services' button.
show_services(u) ==
  /\ last' = Event(u, "services", <<>>, None, "ok", "services")
  /\ UNCHANGED <<users, otp_codes, now, file, prior>>

\* help_command: /help.
help_command(u) ==
  /\ last' = Event(u, "help", <<>>, None, "ok", "help")
  /\ UNCHANGED <<users, otp_codes, now, file, prior>>

\* query.data is modelled by its first four characters ("gen_") and the rest
\* for the gen_<service_id> payloads, and by the whole string for the others.
\* button_callback: the dispatch on query.data.  A handler's inputs (the
\* profile reported, the code drawn, the clock) are chosen where it is called.
button_callback(u, data) ==
  CASE data.head = "main" /\ data.rest = "" ->
         \E p \in Profiles : start(u, p)
    [] data.head = "generate" /\ data.rest = "" -> show_services_for_generation(u)
    [] data.head = "verify" /\ data.rest = "" -> verify_otp_command(u)
    [] data.head = "verify_current" /\ data.rest = "" ->
         verify_current_otp(u)
    [] data.head = "stats" /\ data.rest = "" -> show_stats(u)
    [] data.head = "services" /\ data.rest = "" -> show_services(u)
    [] data.head = "gen_" ->
         \E c \in generate_otp(6), d \in {0, ClockStep} :
           generate_otp_for_service(u, data.rest, c, d)

\* The handlers run() registers.  No handler touches the disk's condition.
CommandStart ==
  /\ \E u \in UserIds, p \in Profiles : start(u, p)
  /\ UNCHANGED <<disk, tasks>>
CommandGenerate ==
  /\ \E u \in UserIds : show_services_for_generation(u)
  /\ UNCHANGED <<disk, tasks>>
CommandVerify ==
  /\ \E u \in UserIds : verify_otp_command(u)
  /\ UNCHANGED <<disk, tasks>>
CommandStats ==
  /\ \E u \in UserIds : show_stats(u)
  /\ UNCHANGED <<disk, tasks>>
CommandServices ==
  /\ \E u \in UserIds : show_services(u)
  /\ UNCHANGED <<disk, tasks>>
CommandHelp ==
  /\ \E u \in UserIds : help_command(u)
  /\ UNCHANGED <<disk, tasks>>
\* CallbackQueryHandler(button_callback), by the payload pressed.
Payload(h) == [head |-> h, rest |-> ""]
ButtonMain ==
  /\ \E u \in UserIds : button_callback(u, Payload("main"))
  /\ UNCHANGED <<disk, tasks>>
ButtonGenerate ==
  /\ \E u \in UserIds : button_callback(u, Payload("generate"))
  /\ UNCHANGED <<disk, tasks>>
ButtonVerify ==
  /\ \E u \in UserIds : button_callback(u, Payload("verify"))
  /\ UNCHANGED <<disk, tasks>>
ButtonVerifyCurrent ==
  /\ \E u \in UserIds : button_callback(u, Payload("verify_current"))
  /\ UNCHANGED <<disk, tasks>>
ButtonStats ==
  /\ \E u \in UserIds : button_callback(u, Payload("stats"))
  /\ UNCHANGED <<disk, tasks>>
ButtonServices ==
  /\ \E u \in UserIds : button_callback(u, Payload("services"))
  /\ UNCHANGED <<disk, tasks>>
ButtonGenService ==
  /\ \E u \in UserIds, sid \in RequestedServices :
       button_callback(u, [head |-> "gen_", rest |-> sid])
  /\ UNCHANGED <<disk, tasks>>
TextMessage ==
  /\ \E u \in UserIds, t \in Texts : handle_text_message(u, t)
  /\ UNCHANGED <<disk, tasks>>

\* Mutant of Tick: the records found expired are swept as time passes.
Tick_Sweep ==
  /\ now + ClockStep <= MaxTime
  /\ now' = now + ClockStep
  /\ otp_codes' = [u \in {v \in DOMAIN otp_codes : now' <= otp_codes[v].expires_at} |->
                     otp_codes[u]]
  /\ UNCHANGED <<users, file, disk, last, prior, tasks>>

\* Time passes between two updates.
Tick ==
  /\ now + ClockStep <= MaxTime
  /\ now' = now + ClockStep
  /\ UNCHANGED <<users, otp_codes, file, disk, last, prior, tasks>>

Next ==
  \/ CommandStart
  \/ CommandGenerate
  \/ CommandVerify
  \/ CommandStats
  \/ CommandServices
  \/ CommandHelp
  \/ ButtonMain
  \/ ButtonGenerate
  \/ ButtonVerify
  \/ ButtonVerifyCurrent
  \/ ButtonStats
  \/ ButtonServices
  \/ ButtonGenService
  \/ TextMessage
  \/ Tick

\* One run of the bot on a disk that takes every write.
Spec == Init /\ [][Next]_vars

\* Mutant of load_data: nothing is read back.
load_data_Nothing == [u \in {} |-> None]

\* load_data: self.users as read from bot_data.json, the string keys made int
\* again.  A missing file loads nothing, and so does a truncated one
\* (json.load raises; the exception is logged and swallowed).
load_data ==
  IF file.state = "json"
    THEN [u \in {v \in UserIds : ToString(v) \in DOMAIN file.users} |->
            file.users[ToString(u)]]
    ELSE [u \in {} |-> None]

\* The process is stopped and started again: a new OTPBot, whose otp_codes
\* is empty and whose users is what load_data reads.  prior keeps, per user,
\* the code of the record the old process held, if any.
Restart ==
  /\ users' = load_data
  /\ otp_codes' = [u \in {} |-> None]
  /\ last' = [NoEvent EXCEPT !.op = "restart"]
  /\ prior' = [u \in UserIds |->
                 [code |-> IF u \in DOMAIN otp_codes THEN otp_codes[u].code ELSE <<>>,
                  how |-> "restart", regen |-> FALSE]]
  /\ UNCHANGED <<now, file, disk, tasks>>

NextRestart ==
  \/ Next
  \/ Restart

\* Runs of the bot with restarts between them, every write succeeding.
SpecRestart == Init /\ [][NextRestart]_vars

\* As Init, on a disk that may refuse a write.
InitFaulty ==
  /\ users = [u \in {} |-> None]
  /\ otp_codes = [u \in {} |-> None]
  /\ now = 0
  /\ file = [state |-> "missing", users |-> [k \in {} |-> None]]
  /\ disk = "faulty"
  /\ last = NoEvent
  /\ prior = [u \in UserIds |-> NoPrior]
  /\ tasks = [t \in TaskIds |-> Idle]

\* A gen_<service_id> button handled with both clock reads of the generation
\* (lines 172 and 179) giving the same time.
GenerateAtOnce ==
  /\ \E u \in UserIds, sid \in RequestedServices, c \in generate_otp(6) :
       generate_otp_for_service(u, sid, c, 0)
  /\ UNCHANGED <<disk, tasks>>

\* The updates whose handlers write the store and call save_data.
NextFaulty ==
  \/ CommandStart
  \/ GenerateAtOnce
  \/ ButtonVerifyCurrent
  \/ TextMessage

\* A run of the bot on a disk that may refuse a write, so short that the clock
\* does not advance.
SpecFaulty == InitFaulty /\ [][NextFaulty]_vars

\* The updates sent while another is still being handled: /start, a generation
\* button, the verify_current button, a code typed.
ConcurrentUpdates ==
  { [kind |-> "start", data |-> [head |-> "", rest |-> ""], text |-> <<>>],
    [kind |-> "callback", data |-> [head |-> "gen_", rest |-> "login_2fa"], text |-> <<>>],
    [kind |-> "callback", data |-> Payload("verify_current"), text |-> <<>>],
    [kind |-> "text", data |-> [head |-> "", rest |-> ""], text |-> CodeA] }

\* An update is dispatched to a new coroutine.  A callback coroutine is suspended
\* at await query.answer() (line 519), a message coroutine has not run yet: in
\* both, what comes next is the handler's work on the store.
Receive(t, u, upd) ==
  /\ tasks[t].pc = "idle"
  /\ tasks' = [tasks EXCEPT ![t] =
                 [pc |-> "ready", user |-> u, kind |-> upd.kind, data |-> upd.data,
                  text |-> upd.text, result |-> None]]
  /\ UNCHANGED <<users, otp_codes, now, file, disk, last, prior>>

\* The handler the update is dispatched to (lines 551-558).
HandlerBody(k) ==
  CASE k.kind = "start" -> \E p \in Profiles : start(k.user, p)
    [] k.kind = "callback" -> button_callback(k.user, k.data)
    [] k.kind = "text" -> handle_text_message(k.user, k.text)

\* Mutant of RunBody: an await between the read and the write of
\* otp_count += 1 (line 185), so that another coroutine may run in between.
RunBody_SplitIncrement(t) ==
  LET k == tasks[t]
      u == k.user
  IN IF /\ k.kind = "callback" /\ k.data.head = "gen_"
        /\ k.data.rest \in DOMAIN services /\ u \in DOMAIN users
       THEN \/ /\ k.pc = "ready"
               /\ users[u].otp_count < MaxOtpCount
               /\ \E c \in generate_otp(6), d \in {0, ClockStep} :
                    /\ now + d <= MaxTime
                    /\ otp_codes' = StoreOtp(u, NewOtp(k.data.rest, c, now, now + d))
                    /\ now' = now + d
               /\ tasks' = [tasks EXCEPT ![t].pc = "write",
                                         ![t].result = users[u].otp_count]
               /\ UNCHANGED <<users, file, disk, last, prior>>
            \/ /\ k.pc = "write"
               /\ users' = [users EXCEPT ![u].otp_count = k.result + 1]
               /\ \E sv \in save_data(users') : file' = sv.file
               /\ last' = Event(u, "generate", <<>>, k.data.rest, "ok", "otp_generated")
               /\ tasks' = [tasks EXCEPT ![t].pc = "reply", ![t].result = "ok"]
               /\ UNCHANGED <<otp_codes, now, disk, prior>>
       ELSE /\ k.pc = "ready"
            /\ HandlerBody(k)
            /\ tasks' = [tasks EXCEPT ![t] =
                           IF last'.reply = None
                             THEN Idle
                             ELSE [@ EXCEPT !.pc = "reply", !.result = last'.result]]
            /\ UNCHANGED disk

\* A coroutine runs from one await to the next: the handler's whole work on the
\* store, up to the await of its reply (edit_message_text, reply_text).  A
\* handler that raises ends there, with no reply.
RunBody(t) ==
  /\ tasks[t].pc = "ready"
  /\ HandlerBody(tasks[t])
  /\ tasks' = [tasks EXCEPT ![t] =
                 IF last'.reply = None
                   THEN Idle
                   ELSE [@ EXCEPT !.pc = "reply", !.result = last'.result]]
  /\ UNCHANGED disk

\* The reply is sent and the coroutine returns.
Finish(t) ==
  /\ tasks[t].pc = "reply"
  /\ tasks' = [tasks EXCEPT ![t] = Idle]
  /\ UNCHANGED <<users, otp_codes, now, file, disk, last, prior>>

ReceiveUpdate == \E t \in TaskIds, u \in UserIds, upd \in ConcurrentUpdates : Receive(t, u, upd)

RunTask == \E t \in TaskIds : RunBody(t)

FinishTask == \E t \in TaskIds : Finish(t)

NextConcurrent ==
  \/ ReceiveUpdate
  \/ RunTask
  \/ FinishTask

\* The bot as it would run with updates processed concurrently: the coroutines
\* of two updates interleave at their awaits.
SpecConcurrent == Init /\ [][NextConcurrent]_vars

\* ------------------------------------------------------------ properties
HasOtp(u) == u \in DOMAIN otp_codes
Unexpired(u) == HasOtp(u) /\ now <= otp_codes[u].expires_at
Registered(u) == u \in DOMAIN users

\* The texts handle_text_message takes for a code: 6 digits once stripped.
SixDigitTexts ==
  { t \in Texts : Len(strip(t)) = 6 /\ \A i \in 1..6 : strip(t)[i] \in Digits }

\* C1 (as claimed).  Single use: verifying the matching code of a live,
\* unexpired OTP, by free text or by the verify_current button, yields Success
\* and removes the record; and verifying a code that was verified successfully,
\* with no generation since, yields NoActiveOtp.
C1_SingleUse ==
  [][\A u \in UserIds :
       /\ \A t \in SixDigitTexts :
            last'.text = t /\ handle_text_message(u, t) /\ Unexpired(u) /\ otp_codes[u].code = strip(t)
              => last'.result = "Success" /\ ~HasOtp(u)'
       /\ last'.op = "verify_current" /\ verify_current_otp(u) /\ Unexpired(u)
            => last'.result = "Success" /\ ~HasOtp(u)'
       /\ \A t \in SixDigitTexts :
            last'.text = t /\ handle_text_message(u, t) /\ prior[u].how = "verified"
              /\ ~prior[u].regen /\ prior[u].code = strip(t)
              => last'.result = "NoActiveOtp"]_vars

\* C2 (as claimed).  A verification attempt on a record whose expires_at has
\* passed yields Expired and deletes the record, whatever 6-digit code is sent.
C2_ExpiredWhateverCode ==
  [][\A u \in UserIds :
       /\ \A t \in SixDigitTexts :
            last'.text = t /\ handle_text_message(u, t) /\ HasOtp(u) /\ now > otp_codes[u].expires_at
              => last'.result = "Expired" /\ ~HasOtp(u)'
       /\ last'.op = "verify_current" /\ verify_current_otp(u) /\ HasOtp(u) /\ now > otp_codes[u].expires_at
            => last'.result = "Expired" /\ ~HasOtp(u)']_vars

\* C3 (as claimed).  is_otp_valid returns true exactly when the record exists,
\* its used flag is false, the clock is at most expires_at and the code
\* presented equals the stored code.
C3_ValidIff ==
  \A u \in UserIds : \A c \in generate_otp(6) :
    is_otp_valid(u, c).ret
      <=> /\ HasOtp(u)
          /\ ~otp_codes[u].used
          /\ now <= otp_codes[u].expires_at
          /\ otp_codes[u].code = c

\* C4 (as claimed).  Every generation for a known service adds exactly 1 to the
\* user's otp_count and leaves verified_count alone; verified_count grows by
\* exactly 1 on Success and is unchanged otherwise; no counter decreases.
C4_Counters ==
  [][\A u \in UserIds :
       /\ \A sid \in DOMAIN services, c \in generate_otp(6), d \in {0, ClockStep} :
            last'.service = sid /\ generate_otp_for_service(u, sid, c, d)
              => /\ Registered(u) /\ Registered(u)'
                 /\ users'[u].otp_count = users[u].otp_count + 1
                 /\ users'[u].verified_count = users[u].verified_count
       /\ Registered(u)
            => /\ Registered(u)'
               /\ users'[u].otp_count >= users[u].otp_count
               /\ users'[u].verified_count =
                    users[u].verified_count +
                      (IF last'.result = "Success" /\ last'.user = u /\ last' # last
                         THEN 1 ELSE 0)]_vars

\* C5.  A 6-digit text that differs from the stored code, sent while the OTP
\* is unexpired, is answered Invalid and changes neither the OTP record nor
\* the User records (nor the clock): the OTP is as verifiable as before.
C5_WrongCodeKeepsOtp ==
  [][\A u \in UserIds : \A t \in SixDigitTexts :
       last'.text = t /\ handle_text_message(u, t) /\ Unexpired(u) /\ otp_codes[u].code # strip(t)
         => /\ last'.result = "Invalid"
            /\ otp_codes' = otp_codes
            /\ users' = users
            /\ now' = now]_vars

\* C5's case: a registered user's wrong code was just rejected as Invalid and
\* the unexpired OTP is still in the store.
C5_Witness ==
  /\ last.op = "text" /\ last.result = "Invalid"
  /\ Registered(last.user) /\ Unexpired(last.user)
  /\ last.text \in SixDigitTexts
  /\ otp_codes[last.user].code # strip(last.text)

\* C6.  The slot holds one record per user (otp_codes is a map on user ids),
\* and a generation for a configured service always leaves in it the record
\* just generated, whatever was there; the code of the record it replaced, when
\* it differs from the new code, is then answered Invalid and the new record
\* stays as it is.
C6_GenerateReplaces ==
  [][\A u \in UserIds :
       /\ \A sid \in DOMAIN services, c \in generate_otp(6), d \in {0, ClockStep} :
            last'.service = sid /\ generate_otp_for_service(u, sid, c, d)
              => /\ HasOtp(u)'
                 /\ otp_codes'[u].code = c
                 /\ otp_codes'[u].service = sid
                 /\ ~otp_codes'[u].used
                 /\ DOMAIN otp_codes' = DOMAIN otp_codes \cup {u}
       /\ \A t \in SixDigitTexts :
            last'.text = t /\ handle_text_message(u, t) /\ HasOtp(u) /\ prior[u].how = "replaced"
              /\ prior[u].code = strip(t) /\ otp_codes[u].code # strip(t)
              => /\ last'.result = "Invalid"
                 /\ otp_codes' = otp_codes]_vars

\* C6's case: a registered user generated a second code over an unverified one
\* and the replaced code was just rejected as Invalid.
C6_Witness ==
  /\ last.op = "text" /\ last.result = "Invalid"
  /\ Registered(last.user) /\ HasOtp(last.user)
  /\ prior[last.user].how = "replaced"
  /\ prior[last.user].code = strip(last.text)
  /\ users[last.user].otp_count >= 2

\* C7 (as claimed).  Every stored OTP record has
\* expires_at = created_at + the expiry of its service.
C7_ExpiresAt ==
  \A u \in DOMAIN otp_codes :
    otp_codes[u].expires_at =
      otp_codes[u].created_at + services[otp_codes[u].service].expiry

\* C8 (as claimed).  Once the bot has handled an update of a user, that user
\* has a User record.
C8_RegisteredOnFirstContact ==
  last.op # "none" => Registered(last.user)

\* C9.  /start (or 'main') for a user who has a User record leaves users as
\* it is, and no step removes a User record or changes its first_name,
\* last_name, username or registered_at.
C9_RegistrationIdempotent ==
  [][\A u \in UserIds :
       Registered(u)
         => /\ \A p \in Profiles : last'.op = "start" /\ start(u, p) => users' = users
            /\ Registered(u)'
            /\ users'[u].first_name = users[u].first_name
            /\ users'[u].last_name = users[u].last_name
            /\ users'[u].username = users[u].username
            /\ users'[u].registered_at = users[u].registered_at]_vars

\* C9's case: /start was handled for a user registered earlier who has
\* generated and verified codes since.
C9_Witness ==
  /\ last.op = "start"
  /\ Registered(last.user)
  /\ users[last.user].registered_at < now
  /\ users[last.user].otp_count > 0
  /\ users[last.user].verified_count > 0

\* C10 (as claimed).  No handler ends by raising an exception to the
\* transport: every update ends in a rendered reply.
C10_NoException ==
  last.result # "KeyError" /\ (last.op # "none" => last.reply # None)

\* C11.  A generation for a service id that is not configured fails (the lookup
\* of line 167 raises) and leaves the store as it was: the user's OTP record,
\* if any, is neither replaced nor removed, the counters and the file keep their
\* values, and no time was read.
C11_UnknownServiceKeepsStore ==
  [][\A u \in UserIds :
       \A sid \in RequestedServices \ DOMAIN services,
          c \in generate_otp(6), d \in {0, ClockStep} :
         last'.service = sid /\ generate_otp_for_service(u, sid, c, d)
           => /\ last'.result = "KeyError"
              /\ otp_codes' = otp_codes
              /\ users' = users
              /\ file' = file
              /\ now' = now]_vars

\* C11's case: a registered user who holds an unexpired code and has generated
\* before asks for a service that is not configured.
C11_Witness ==
  /\ last.op = "generate" /\ last.service \notin DOMAIN services
  /\ Registered(last.user) /\ Unexpired(last.user)
  /\ users[last.user].otp_count >= 1

\* The replies that only show something: the verify menu, the statistics, the
\* list of services, the help text.
ViewOps == {"verify_menu", "stats", "services", "help"}

\* C12.  The views never change the store: a step that ends with a view as the
\* update handled last leaves every OTP record, every User record and the file
\* as they were, an expired record included; and a record that is expired
\* changes or disappears only in a step that handles a verification attempt or
\* a generation.
C12_ViewsAreReadOnly ==
  [][/\ last'.op \in ViewOps
          => /\ otp_codes' = otp_codes
             /\ users' = users
             /\ file' = file
     /\ \A u \in UserIds :
          /\ HasOtp(u) /\ now > otp_codes[u].expires_at
          /\ (~HasOtp(u)' \/ otp_codes'[u] # otp_codes[u])
          => /\ last'.user = u
             /\ last'.op \in {"text", "verify_current", "generate"}]_vars

\* C12's case: the verify menu was shown to a user whose record is expired, and
\* the record is still in the store.
C12_Witness ==
  /\ last.op = "verify_menu" /\ last.reply = "no_active_otp"
  /\ HasOtp(last.user) /\ now > otp_codes[last.user].expires_at

\* The texts that are 6 digits as they stand, nothing stripped.
ExactlySixDigits == { t \in Texts : Len(t) = 6 /\ \A i \in 1..6 : t[i] \in Digits }

OldCodeAfterRegeneration(u, t) ==
  /\ prior[u].how = "verified" /\ prior[u].regen
  /\ Unexpired(u)
  /\ otp_codes[u].code # prior[u].code
  /\ strip(t) = prior[u].code

\* C14 (as claimed).  After a successful verification of a code and a fresh
\* generation of a different code that is still unexpired, verifying the old
\* code yields NoActiveOtp.
C14_OldCodeNoActiveOtp ==
  [][\A u \in UserIds : \A t \in SixDigitTexts :
       last'.text = t /\ handle_text_message(u, t) /\ OldCodeAfterRegeneration(u, t)
         => last'.result = "NoActiveOtp"]_vars

\* C14 (amended).  After a successful verification of a code and a fresh
\* generation of a different code that is still unexpired, verifying the old
\* code yields Invalid, and the new record and the counters stay as they are.
C14_OldCodeInvalid ==
  [][\A u \in UserIds : \A t \in SixDigitTexts :
       last'.text = t /\ handle_text_message(u, t) /\ OldCodeAfterRegeneration(u, t)
         => /\ last'.result = "Invalid"
            /\ otp_codes' = otp_codes
            /\ users' = users]_vars

\* C14's case: a registered user verified a code, generated a different one and
\* then sent the old code, which was rejected while the new record stays.
C14_Witness ==
  /\ last.op = "text" /\ last.result = "Invalid"
  /\ Registered(last.user) /\ Unexpired(last.user)
  /\ prior[last.user].how = "verified" /\ prior[last.user].regen
  /\ strip(last.text) = prior[last.user].code
  /\ users[last.user].verified_count >= 1
  /\ users[last.user].otp_count >= 2

\* What the last save left is not the store: the write failed.
FileStale == file.state # "json" \/ file.users # json_dump(users)

\* C15.  A write of the file that fails does not fail the operation: whatever
\* save_data leaves on the disk, a registration, a generation by a registered
\* user and a successful verification by a registered user complete with their
\* reply and with the same effects on users and otp_codes.
C15_SaveFailureKeepsEffects ==
  [][\A u \in UserIds :
       /\ last'.op = "start" /\ ~Registered(u)
            => \A p \in Profiles :
                 start(u, p)
                   => /\ users' = Put(users, u, NewUser(p))
                      /\ otp_codes' = otp_codes
                      /\ last'.result = "ok" /\ last'.reply = "welcome"
       /\ last'.op = "generate" /\ last'.service \in DOMAIN services /\ Registered(u)
            => \A c \in generate_otp(6), d \in {0, ClockStep} :
                 generate_otp_for_service(u, last'.service, c, d)
                   => /\ users' = [users EXCEPT ![u].otp_count = @ + 1]
                      /\ HasOtp(u)' /\ otp_codes'[u].code = c
                      /\ last'.result = "ok" /\ last'.reply = "otp_generated"
       /\ /\ last'.op = "text" /\ Registered(u) /\ Unexpired(u)
          /\ otp_codes[u].code = strip(last'.text)
          /\ handle_text_message(u, last'.text)
          => /\ users' = [users EXCEPT ![u].verified_count = @ + 1]
             /\ otp_codes' = Del(otp_codes, u)
             /\ last'.result = "Success" /\ last'.reply = "verified"
       /\ /\ last'.op = "verify_current" /\ Registered(u) /\ Unexpired(u)
          /\ verify_current_otp(u)
          => /\ users' = [users EXCEPT ![u].verified_count = @ + 1]
             /\ otp_codes' = Del(otp_codes, u)
             /\ last'.result = "Success" /\ last'.reply = "verified"]_vars

\* C15's case: a verification has just succeeded, the record is gone and the
\* count is up, and the file does not hold the store: the write failed.
C15_Witness ==
  /\ last.result = "Success" /\ Registered(last.user) /\ ~HasOtp(last.user)
  /\ users[last.user].verified_count >= 1
  /\ FileStale

\* C17.  A restart empties otp_codes and, every earlier write having succeeded,
\* reads back the users map as it was in memory, counters included; and until
\* the user generates again every verification, by any text or by the
\* verify_current button, is answered NoActiveOtp and changes nothing.
C17_RestartDropsOtps ==
  [][/\ Restart
          => /\ otp_codes' = [u \in {} |-> None]
             /\ users' = users
     /\ \A u \in UserIds :
          /\ \A t \in SixDigitTexts :
               /\ prior[u].how = "restart" /\ ~prior[u].regen
               /\ last'.text = t /\ handle_text_message(u, t)
               => /\ last'.result = "NoActiveOtp"
                  /\ users' = users /\ otp_codes' = otp_codes
          /\ /\ prior[u].how = "restart" /\ ~prior[u].regen
             /\ last'.op = "verify_current" /\ verify_current_otp(u)
             => /\ last'.result = "NoActiveOtp"
                /\ users' = users /\ otp_codes' = otp_codes]_vars

\* C17's case: a registered user with both counters raised held a code when
\* the process was restarted, and then typed that code.
C17_Witness ==
  /\ last.op = "text" /\ last.result = "NoActiveOtp"
  /\ prior[last.user].how = "restart"
  /\ prior[last.user].code = strip(last.text)
  /\ Registered(last.user)
  /\ users[last.user].otp_count >= 2
  /\ users[last.user].verified_count >= 1

\* C18.  With every write succeeding, between two updates the file holds the
\* users map: its users section is the json of self.users, and reading it back
\* gives self.users (before the first write there is no file and no user).
C18_FileTracksStore ==
  /\ file.users = json_dump(users)
  /\ load_data = users
  /\ file.state = "missing" => users = [u \in {} |-> None]

\* C18's case: the file holds a user whose two counters were raised by a
\* generation and a verification.
C18_Witness ==
  /\ file.state = "json"
  /\ \E u \in UserIds :
       /\ Registered(u)
       /\ users[u].otp_count >= 1 /\ users[u].verified_count >= 1
       /\ file.users[ToString(u)] = users[u]

\* C19.  Expiry is lazy.  A step in which only time passes changes no OTP
\* record, no User record and not the file, so a record that expires stays as
\* it is; and a record leaves the store only by a successful verification, by
\* a verification attempt that finds it expired, or by the record a generation
\* by the same user puts in its place.
C19_LazyExpiry ==
  [][/\ Tick => otp_codes' = otp_codes /\ users' = users /\ file' = file
     /\ \A u \in UserIds :
          /\ HasOtp(u) /\ ~HasOtp(u)'
               => /\ last'.user = u
                  /\ last'.op \in {"text", "verify_current"}
                  /\ \/ last'.result = "Success" /\ now <= otp_codes[u].expires_at
                     \/ last'.result = "Expired" /\ now > otp_codes[u].expires_at
          /\ HasOtp(u) /\ HasOtp(u)' /\ otp_codes'[u].code # otp_codes[u].code
               => last'.user = u /\ last'.op = "generate"]_vars

\* C19's case: time passed beyond the expiry of a record nobody has touched
\* since it was generated, and the record is still in the store.
C19_Witness ==
  /\ last.op = "generate" /\ last.result = "ok"
  /\ HasOtp(last.user)
  /\ now > otp_codes[last.user].expires_at
  /\ ~otp_codes[last.user].used

\* C20 (as claimed).  The verify_current button is never answered Invalid: it
\* yields NoActiveOtp when the user has no record; Success, with the record
\* removed and verified_count incremented, when the record is unexpired; and
\* Expired, with the record removed and the counters unchanged, when it is
\* expired.
C20_VerifyCurrentOutcome ==
  [][\A u \in UserIds :
       last'.op = "verify_current" /\ verify_current_otp(u)
         => /\ last'.result # "Invalid"
            /\ ~HasOtp(u)
                 => /\ last'.result = "NoActiveOtp"
                    /\ otp_codes' = otp_codes /\ users' = users
            /\ Unexpired(u)
                 => /\ last'.result = "Success"
                    /\ ~HasOtp(u)'
                    /\ Registered(u)'
                    /\ users'[u].verified_count = users[u].verified_count + 1
            /\ HasOtp(u) /\ now > otp_codes[u].expires_at
                 => /\ last'.result = "Expired"
                    /\ ~HasOtp(u)'
                    /\ users' = users]_vars

\* The coroutine in slot t has just done its work on the store.
BodyDone(t) == tasks[t].pc # "reply" /\ tasks'[t].pc = "reply"

\* C16.  With the coroutines of two updates interleaved at their awaits, the
\* work of a handler on the store is one step.  A verification that yields
\* Success found the record at the start of that step and removed it in the same
\* step, with verified_count one higher than at its start, so two verifications
\* of one record cannot both yield Success; a verification by a registered user
\* that starts on an unexpired matching record yields Success; and a generation
\* that replies leaves otp_count one higher than at the start of its step, so
\* no increment is lost.
C16_HandlersAtomic ==
  [][\A t \in TaskIds :
       LET k == tasks[t]
           u == k.user
           verification == k.kind = "text" \/ k.data = Payload("verify_current")
       IN BodyDone(t)
            => /\ tasks'[t].result = "Success"
                    => /\ verification
                       /\ HasOtp(u) /\ ~HasOtp(u)'
                       /\ users'[u] = [users[u] EXCEPT !.verified_count = @ + 1]
               /\ /\ verification /\ Registered(u) /\ Unexpired(u)
                  /\ k.kind = "text" => otp_codes[u].code = strip(k.text)
                  => tasks'[t].result = "Success"
               /\ k.data.head = "gen_"
                    => /\ HasOtp(u)'
                       /\ users'[u] = [users[u] EXCEPT !.otp_count = @ + 1]]_vars

\* C16's case: two verifications of one user were in flight together, against
\* one record; one has yielded Success, the other NoActiveOtp, and
\* verified_count rose by one.
C16_Witness ==
  /\ tasks["t1"].pc = "reply" /\ tasks["t2"].pc = "reply"
  /\ tasks["t1"].user = tasks["t2"].user
  /\ tasks["t1"].result = "Success" /\ tasks["t2"].result = "NoActiveOtp"
  /\ tasks["t1"].data = Payload("verify_current") /\ tasks["t2"].kind = "text"
  /\ users[tasks["t1"].user].verified_count = users[tasks["t1"].user].otp_count

\* C21 (as claimed).  In every state, each user with a User record has
\* verified_count <= otp_count.
C21_VerifiedAtMostGenerated ==
  \A u \in UserIds :
    Registered(u) => users[u].verified_count <= users[u].otp_count

\* C22 (as claimed).  Between two updates, every user with an OTP record has a
\* User record, and no stored OTP record is marked used.
C22_OtpHasUserAndUnused ==
  \A u \in UserIds :
    HasOtp(u) => Registered(u) /\ ~otp_codes[u].used

====
